---- MODULE Spec2Model ----
(***************************************************************************)
(* Simulation and risk-accounting core of trading_arbitrage_kraken:        *)
(*   - BacktestEngine (the Ledger)       src/backtesting/backtest_engine.py *)
(*   - VolatilityAdaptiveStrategy        src/strategies/                    *)
(*                                         volatility_adaptive_strategy.py  *)
(*   - the two run_backtest drivers      src/backtesting/backtest_engine.py *)
(*                                       src/backtest_volatility_strategy.py*)
(*                                                                         *)
(* Numbers.  The program computes in floating point; the model computes    *)
(* the same expressions exactly, over integers:                            *)
(*   - trading_fee and slippage are rates in hundredths (RateDen);         *)
(*   - a requested price is a whole number, an executed (post-slippage)    *)
(*     price is held times RateDen;                                        *)
(*   - every amount of money (capital, fees, pnl, funding_cost, equity)    *)
(*     is held times RateDen * RateDen.                                    *)
(* Rounding of the floating-point operations is not modelled.              *)
(***************************************************************************)
EXTENDS Integers, Sequences, FiniteSets, TLC

(***************************************************************************)
(* Bounds of the model and the sets the inputs are drawn from.             *)
(***************************************************************************)
MaxTime == 3        \* the simulation clock stops here: timestamps are 1..MaxTime
MaxRows == 7        \* rows of market data handed to one strategy instance, in all
MaxBars == 4        \* rows of the market data a run_backtest driver is given
MaxPoints == 3      \* points of an equity curve, entries of a return series
MaxLogged == 2      \* trades in the trade history of a ledger whose statistics are taken
MaxHistory == 3     \* prices in a price history handed to calculate_volatility

RateDen == 10 * 10                 \* denominator of trading_fee and slippage
MoneyDen == RateDen * RateDen      \* denominator of every amount of money
Money(units) == units * MoneyDen

Symbols   == {"BTC/USD", "ETH/USD"}
Sides     == {"long", "short"}
Prices    == {100, 110}
Sizes     == {<<1, 1>>, <<20, 1>>, <<20, 2>>}    \* <<amount, leverage>> of an order
FundingCosts == {0, Money(3)}
FeeRates  == {0, 1}                \* trading_fee in hundredths
SlipRates == {0, 5}                \* slippage in hundredths
InitialCapitals == {Money(1000)}
PriceMaps == UNION {[S -> Prices] : S \in SUBSET Symbols}

VARIABLES
    initial_capital,   \* BacktestEngine.initial_capital
    capital,           \* BacktestEngine.capital
    trading_fee,       \* BacktestEngine.trading_fee
    slippage,          \* BacktestEngine.slippage
    positions,         \* BacktestEngine.positions: the open Position records
    trades,            \* BacktestEngine.trades
    equity_curve,      \* BacktestEngine.equity_curve
    metrics,           \* BacktestEngine.metrics
    call,              \* the last ledger call: the operation and what it returned
    now,               \* the simulation clock: the timestamp of the last accepted call
    params,            \* VolatilityAdaptiveStrategy: the constructor's arguments
    strat_positions,   \* VolatilityAdaptiveStrategy.positions (insertion-ordered dict)
    strat_metrics,     \* VolatilityAdaptiveStrategy.metrics
    gen,               \* the generate_signals call in progress: its arguments and locals
    signals,           \* generate_signals: the list `signals` (returned at the end)
    active_symbols,    \* generate_signals: the set `active_symbols`
    rows_used,         \* rows of market data the strategy has been handed so far
    run                \* the run_backtest call in progress: which driver, and its locals

ledger == <<initial_capital, capital, trading_fee, slippage, positions, trades,
            equity_curve, metrics>>
strategy == <<params, strat_positions, strat_metrics, gen, signals, active_symbols,
              rows_used>>
vars == <<initial_capital, capital, trading_fee, slippage, positions, trades,
          equity_curve, metrics, call, now, params, strat_positions, strat_metrics,
          gen, signals, active_symbols, rows_used, run>>

(***************************************************************************)
(* Helpers.                                                                *)
(***************************************************************************)
Call(op, returned) == [op |-> op, returned |-> returned]

NoCall == Call("__init__", "none")

(***************************************************************************)
(* BacktestEngine.__init__                                                 *)
(***************************************************************************)
LedgerInit ==
    /\ initial_capital \in InitialCapitals
    /\ capital = initial_capital
    /\ trading_fee \in FeeRates
    /\ slippage \in SlipRates
    /\ positions = {}
    /\ trades = <<>>
    /\ equity_curve = <<>>
    /\ metrics = [computed |-> FALSE]

(***************************************************************************)
(* The dict self.positions, held as the set of its Position values (each   *)
(* carries its key in .symbol).                                            *)
(***************************************************************************)
PositionKeys(ps) == {p.symbol : p \in ps}
\* mutant: the check for an existing position is left out
HasPosition_Unchecked(symbol) == FALSE

HasPosition(symbol) == symbol \in PositionKeys(positions)
PositionOf(symbol) == CHOOSE p \in positions : p.symbol = symbol

(***************************************************************************)
(* BacktestEngine.open_position                                            *)
(***************************************************************************)
\* mutant: >= for >, an order whose margin is exactly the capital is refused
InsufficientCapital_AtLeast(price, amount, leverage) ==
    Money(price * amount) >= capital * leverage

\* mutant: the margin is compared with the initial capital, not the current one
InsufficientCapital_OfInitial(price, amount, leverage) ==
    Money(price * amount) > initial_capital * leverage

\* required_margin > self.capital, with required_margin = price*amount/leverage
InsufficientCapital(price, amount, leverage) ==
    Money(price * amount) > capital * leverage

\* price * (1 + slippage) for a long, price * (1 - slippage) for a short; times RateDen
EntryExecutedPrice(price, side) ==
    price * (IF side = "long" THEN RateDen + slippage ELSE RateDen - slippage)

\* fees = position_value * trading_fee  (position_value = requested price * amount)
EntryFees(price, amount) == price * amount * trading_fee * RateDen

NewPosition(symbol, side, price, amount, leverage, timestamp) ==
    [symbol |-> symbol, side |-> side,
     entry_price |-> EntryExecutedPrice(price, side),
     amount |-> amount, leverage |-> leverage, timestamp |-> timestamp]

OpenPosition(symbol, side, price, amount, leverage, timestamp) ==
    LET returned(r) ==
            call' = Call("open_position", r)
    IN  IF HasPosition(symbol)
        THEN /\ returned("false")
             /\ UNCHANGED ledger
        ELSE IF InsufficientCapital(price, amount, leverage)
        THEN /\ returned("false")
             /\ UNCHANGED ledger
        ELSE /\ capital' = capital - EntryFees(price, amount)
             /\ positions' = positions \cup
                    {NewPosition(symbol, side, price, amount, leverage, timestamp)}
             /\ returned("true")
             /\ UNCHANGED <<initial_capital, trading_fee, slippage, trades,
                            equity_curve, metrics>>

(***************************************************************************)
(* BacktestEngine.close_position                                           *)
(***************************************************************************)
\* mutant: the exit is slipped like an entry (1 + slippage for a long)
ExitExecutedPrice_LikeEntry(price, side) ==
    price * (IF side = "long" THEN RateDen + slippage ELSE RateDen - slippage)

\* price * (1 - slippage) for a long, price * (1 + slippage) for a short; times RateDen
ExitExecutedPrice(price, side) ==
    price * (IF side = "long" THEN RateDen - slippage ELSE RateDen + slippage)

\* mutant: the long and the short formula are swapped
PositionPnl_Swapped(side, entry_price, exit_price, amount) ==
    IF side = "long"
    THEN (entry_price - exit_price) * amount * RateDen
    ELSE (exit_price - entry_price) * amount * RateDen

\* pnl of a position of `side` entered at entry_price and valued at exit_price
\* (both times RateDen); the result is money
PositionPnl(side, entry_price, exit_price, amount) ==
    IF side = "long"
    THEN (exit_price - entry_price) * amount * RateDen
    ELSE (entry_price - exit_price) * amount * RateDen

\* fees = position_value * trading_fee  (position_value = executed price * amount)
ExitFees(executed_price, amount) == executed_price * amount * trading_fee

\* mutant: the trade's entry_time is taken from the close, not from the position
NewTrade_EntryTimeOfClose(position, executed_price, timestamp, funding_cost) ==
    [symbol |-> position.symbol,
     side |-> position.side,
     entry_price |-> position.entry_price,
     exit_price |-> executed_price,
     amount |-> position.amount,
     entry_time |-> timestamp,
     exit_time |-> timestamp,
     pnl |-> IF position.side = "long"
             THEN (executed_price - position.entry_price) * position.amount * RateDen
             ELSE (position.entry_price - executed_price) * position.amount * RateDen,
     fees |-> executed_price * position.amount * trading_fee,
     funding_cost |-> funding_cost,
     leverage |-> position.leverage]

NewTrade(position, executed_price, timestamp, funding_cost) ==
    [symbol |-> position.symbol,
     side |-> position.side,
     entry_price |-> position.entry_price,
     exit_price |-> executed_price,
     amount |-> position.amount,
     entry_time |-> position.timestamp,
     exit_time |-> timestamp,
     pnl |-> PositionPnl(position.side, position.entry_price, executed_price,
                         position.amount),
     fees |-> ExitFees(executed_price, position.amount),
     funding_cost |-> funding_cost,
     leverage |-> position.leverage]

ClosePosition(symbol, price, timestamp, funding_cost) ==
    LET returned(r) ==
            call' = Call("close_position", r)
    IN  IF ~HasPosition(symbol)
        THEN /\ returned("none")
             /\ UNCHANGED ledger
        ELSE LET position == PositionOf(symbol)
                 executed_price == ExitExecutedPrice(price, position.side)
                 trade == NewTrade(position, executed_price, timestamp, funding_cost)
             IN  /\ capital' = capital + (trade.pnl - trade.fees - funding_cost)
                 /\ trades' = Append(trades, trade)
                 /\ positions' = {p \in positions : p.symbol # symbol}
                 /\ returned("trade")
                 /\ UNCHANGED <<initial_capital, trading_fee, slippage,
                                equity_curve, metrics>>

(***************************************************************************)
(* BacktestEngine.update_equity                                            *)
(***************************************************************************)
\* the positions the loop adds to total_equity: those whose symbol is in prices
PricedPositions(ps, prices) == {p \in ps : p.symbol \in DOMAIN prices}

\* mutant: the current price is slipped as a close would slip it
UnrealizedPnl_Slipped(position, current_price) ==
    IF position.side = "long"
    THEN (current_price * (RateDen - slippage) - position.entry_price)
             * position.amount * RateDen
    ELSE (position.entry_price - current_price * (RateDen + slippage))
             * position.amount * RateDen

\* current_price is a requested-style price (no slippage); entry_price is times RateDen
UnrealizedPnl(position, current_price) ==
    PositionPnl(position.side, position.entry_price, current_price * RateDen,
                position.amount)

RECURSIVE UnrealizedSum(_, _)
UnrealizedSum(ps, prices) ==
    IF ps = {} THEN 0
    ELSE LET p == CHOOSE q \in ps : TRUE
         IN  UnrealizedPnl(p, prices[p.symbol]) + UnrealizedSum(ps \ {p}, prices)

TotalEquity(prices) ==
    capital + UnrealizedSum(PricedPositions(positions, prices), prices)

UpdateEquity(timestamp, prices) ==
    /\ equity_curve' = Append(equity_curve, <<timestamp, TotalEquity(prices)>>)
    /\ call' = Call("update_equity", "none")
    /\ UNCHANGED <<initial_capital, capital, trading_fee, slippage, positions,
                   trades, metrics>>

(***************************************************************************)
(* BacktestEngine.calculate_metrics: the metrics that are exact rationals  *)
(* are held as numerator / denominator pairs.                              *)
(***************************************************************************)
RECURSIVE SumPnl(_)
SumPnl(ts) == IF ts = <<>> THEN 0 ELSE Head(ts).pnl + SumPnl(Tail(ts))

(***************************************************************************)
(* The statistics.  A float result is held as a record: kind "ratio" is    *)
(* the fraction num / den, kind "nan", "inf" and "zero" are the floats     *)
(* NaN, +inf and 0, and kind "quotient" is the annualised quotient         *)
(* sqrt(252) * mean / std of a Sharpe or Sortino ratio where its standard  *)
(* deviation is defined, which the model does not evaluate.  A return of a *)
(* return series is a record too: NaN, or the fraction num / den.          *)
(***************************************************************************)
Stat(kind, num, den) == [kind |-> kind, num |-> num, den |-> den]
StatNaN == Stat("nan", 0, 1)
StatInf == Stat("inf", 0, 1)
StatZero == Stat("zero", 0, 1)
StatQuotient == Stat("quotient", 0, 1)
StatNegInf == Stat("-inf", 0, 1)
\* a non-zero mean over a zero deviation whose sign is not worked out: + or - inf
StatSignedInf == Stat("+-inf", 0, 1)

\* a / b <= c / d for a, c >= 0 and b, d > 0, by comparing the integer parts and
\* then the reciprocals of the fractional parts (no products: money is large)
RECURSIVE RatLeq(_, _, _, _)
RatLeq(a, b, c, d) ==
    IF a \div b # c \div d THEN a \div b < c \div d
    ELSE IF a % b = 0 THEN TRUE
    ELSE IF c % d = 0 THEN FALSE
    ELSE RatLeq(d, c % d, b, a % b)

\* equity_df['equity']: the equity column of the equity curve
Equities(curve) == [i \in 1..Len(curve) |-> curve[i][2]]

\* Series.cummax()
CumMax(equity) ==
    [i \in 1..Len(equity) |->
        CHOOSE m \in {equity[j] : j \in 1..i} : \A j \in 1..i : equity[j] <= m]

\* calculate_max_drawdown: ((cummax - equity) / cummax).max(), NaN for an empty
\* series; the equities of the model are positive
CalculateMaxDrawdown(equity) ==
    IF equity = <<>> THEN StatNaN
    ELSE LET rolling_max == CumMax(equity)
             i == CHOOSE k \in 1..Len(equity) : \A j \in 1..Len(equity) :
                      RatLeq(rolling_max[j] - equity[j], rolling_max[j],
                             rolling_max[k] - equity[k], rolling_max[k])
         IN  Stat("ratio", rolling_max[i] - equity[i], rolling_max[i])

\* Series.pct_change(): NaN for the first entry, then the relative change
NaNReturn == [nan |-> TRUE, num |-> 0, den |-> 1]
Return(num, den) == [nan |-> FALSE, num |-> num, den |-> den]
PctChange(equity) ==
    [i \in 1..Len(equity) |->
        IF i = 1 THEN NaNReturn
        ELSE Return(equity[i] - equity[i - 1], equity[i - 1])]

\* the entries a pandas mean / std counts (NaN is skipped), and returns[returns < 0]
Observations(returns) == {i \in 1..Len(returns) : ~returns[i].nan}
Downside(returns) == {i \in Observations(returns) : returns[i].num < 0}

\* two returns are the same number
SameReturn(a, b) ==
    \/ a.num = 0 /\ b.num = 0
    \/ /\ a.num > 0 /\ b.num > 0
       /\ RatLeq(a.num, a.den, b.num, b.den) /\ RatLeq(b.num, b.den, a.num, a.den)
    \/ /\ a.num < 0 /\ b.num < 0
       /\ RatLeq(0 - a.num, a.den, 0 - b.num, b.den)
       /\ RatLeq(0 - b.num, b.den, 0 - a.num, a.den)

\* the std of the entries at `among` is 0: they are all the same number
ZeroDeviation(returns, among) ==
    \A i \in among, j \in among : SameReturn(returns[i], returns[j])

\* a float divided by a zero float (numpy): the infinity of its sign, NaN for 0;
\* here for r - risk_free_rate / 252 = r - 1 / 12600
ExcessOverZero(r) ==
    IF r.num <= 0 \/ ~RatLeq(1, 12600, r.num, r.den) THEN StatNegInf
    ELSE IF RatLeq(r.num, r.den, 1, 12600) THEN StatNaN
    ELSE StatInf

\* calculate_sharpe_ratio: 0 for len(returns) < 2, else sqrt(252) * mean / std;
\* the std (ddof = 1) of fewer than two observations is NaN, and that of equal
\* observations is 0
CalculateSharpeRatio(returns) ==
    IF Len(returns) < 2 THEN StatZero
    ELSE IF Cardinality(Observations(returns)) < 2 THEN StatNaN
    ELSE IF ZeroDeviation(returns, Observations(returns))
         THEN ExcessOverZero(returns[CHOOSE i \in Observations(returns) : TRUE])
    ELSE StatQuotient

\* the Sortino quotient over a zero downside deviation: the mean of returns none
\* of which is positive is below the risk-free rate
DownsideOverZero(returns) ==
    IF \A i \in Observations(returns) : returns[i].num <= 0 THEN StatNegInf
    ELSE StatSignedInf

\* mutant: the guard on the length of the series is left out
CalculateSortinoRatio_Unguarded(returns) ==
    IF Downside(returns) = {} THEN StatInf
    ELSE IF Cardinality(Downside(returns)) < 2 THEN StatNaN
    ELSE IF ZeroDeviation(returns, Downside(returns)) THEN DownsideOverZero(returns)
    ELSE StatQuotient

\* calculate_sortino_ratio: 0 for len(returns) < 2, +inf without a negative
\* return, else sqrt(252) * mean / std of the negative returns
CalculateSortinoRatio(returns) ==
    IF Len(returns) < 2 THEN StatZero
    ELSE IF Downside(returns) = {} THEN StatInf
    ELSE IF Cardinality(Downside(returns)) < 2 THEN StatNaN
    ELSE IF ZeroDeviation(returns, Downside(returns)) THEN DownsideOverZero(returns)
    ELSE StatQuotient

RECURSIVE GrossProfits(_)
GrossProfits(ts) ==
    IF ts = <<>> THEN 0
    ELSE (IF Head(ts).pnl > 0 THEN Head(ts).pnl ELSE 0) + GrossProfits(Tail(ts))

RECURSIVE GrossLosses(_)
GrossLosses(ts) ==
    IF ts = <<>> THEN 0
    ELSE (IF Head(ts).pnl < 0 THEN 0 - Head(ts).pnl ELSE 0) + GrossLosses(Tail(ts))

\* calculate_profit_factor: gross_profits / gross_losses, +inf for no losses
CalculateProfitFactor(ts) ==
    IF GrossLosses(ts) # 0 THEN Stat("ratio", GrossProfits(ts), GrossLosses(ts))
    ELSE StatInf

WinningTrades(ts) == Cardinality({i \in 1..Len(ts) : ts[i].pnl > 0})

ComputedMetrics ==
    [computed |-> TRUE,
     total_return |-> <<capital - initial_capital, initial_capital>>,
     num_trades |-> Len(trades),
     win_rate |-> <<WinningTrades(trades), Len(trades)>>,
     avg_trade_pnl |-> <<SumPnl(trades), Len(trades)>>,
     max_drawdown |-> CalculateMaxDrawdown(Equities(equity_curve)),
     sharpe_ratio |-> CalculateSharpeRatio(PctChange(Equities(equity_curve))),
     sortino_ratio |-> CalculateSortinoRatio(PctChange(Equities(equity_curve))),
     profit_factor |-> CalculateProfitFactor(trades)]

\* mutant: the early return for an empty trade history is left out
CalculateMetrics_NoEarlyReturn ==
    /\ metrics' = ComputedMetrics
    /\ call' = Call("calculate_metrics", "metrics")
    /\ UNCHANGED <<initial_capital, capital, trading_fee, slippage,
                   positions, trades, equity_curve>>

CalculateMetrics ==
    LET returned(r) ==
            call' = Call("calculate_metrics", r)
    IN  IF trades = <<>>
        THEN /\ returned("empty")
             /\ UNCHANGED ledger
        ELSE /\ metrics' = ComputedMetrics
             /\ returned("metrics")
             /\ UNCHANGED <<initial_capital, capital, trading_fee, slippage,
                            positions, trades, equity_curve>>

(***************************************************************************)
(* VolatilityAdaptiveStrategy.                                             *)
(*                                                                         *)
(* Numbers.  Volatility and spreads are held in thousandths (VolDen),      *)
(* funding rates in hundred-thousandths (FundingDen), max_position_pct in  *)
(* hundredths; the capital handed to generate_signals and the position     *)
(* size are whole numbers.  NaN is the float NaN: every ordering           *)
(* comparison with it is false.                                            *)
(***************************************************************************)
VolDen == 10 * 10 * 10
FundingDen == 100 * VolDen
NaN == 0 - 999999

\* the defaults of __init__, in the units above (lookback_period is set per run)
DefaultVolThreshold == 20
DefaultMinSpread == 1
DefaultMaxSpread == 5
DefaultFundingThreshold == 10
DefaultMaxPositionPct == 60
DefaultMaxLeverage == 3
LookbackPeriod == 2

StrategyConfigs ==
    {[lookback_period |-> LookbackPeriod,
      vol_threshold |-> DefaultVolThreshold,
      min_spread |-> DefaultMinSpread,
      max_spread |-> DefaultMaxSpread,
      funding_threshold |-> DefaultFundingThreshold,
      max_position_pct |-> DefaultMaxPositionPct,
      max_leverage |-> DefaultMaxLeverage]}

\* what a row past the warm-up can hold: <<volatility, actual_spread>>, close
Markets   == {<<10, 8>>, <<10, 3>>, <<30, 8>>}
BarPrices == {100}
\* the funding records that can become the latest one between two rows
FundingRates == {-100, 100}
StrategyCapitals == {2000}

Idle == [pc |-> "idle", idx |-> 0, nbars |-> 0, capital |-> 0, has_funding |-> FALSE,
         asof |-> NaN]

\* VolatilityAdaptiveStrategy.__init__
StrategyInit ==
    /\ params \in StrategyConfigs
    /\ strat_positions = <<>>
    /\ strat_metrics = <<>>
    /\ gen = Idle
    /\ signals = <<>>
    /\ active_symbols = {}
    /\ rows_used = 0

Min(a, b) == IF a <= b THEN a ELSE b
Max(a, b) == IF a >= b THEN a ELSE b

\* float comparisons: false when the left operand is NaN; a multiple of NaN is NaN
FLess(a, b) == a # NaN /\ a < b
FGreater(a, b) == a # NaN /\ a > b
Times(k, x) == IF x = NaN THEN NaN ELSE k * x

\* calculate_funding_impact: position_size * funding_rate * 3, as money
CalculateFundingImpact(funding_rate, position_size) ==
    IF funding_rate = NaN THEN NaN
    ELSE (position_size * funding_rate * 3 * MoneyDen) \div FundingDen

\* calculate_dynamic_spread: min(min_spread + volatility * 2, max_spread)
CalculateDynamicSpread(volatility) ==
    Min(params.min_spread + volatility * 2, params.max_spread)

\* mutant: the leverage is not capped by max_leverage
PositionLeverage_Uncapped(volatility) ==
    IF volatility = 0 THEN params.max_leverage ELSE (2 * VolDen) \div volatility

\* calculate_position_size: leverage = min(max_leverage, 2 / volatility); the
\* division yields +inf for a zero volatility (numpy float), so the min is max_leverage
PositionLeverage(volatility) ==
    IF volatility = 0 THEN params.max_leverage
    ELSE IF 2 * VolDen >= params.max_leverage * volatility THEN params.max_leverage
    ELSE (2 * VolDen) \div volatility

\* vol_scalar = max(0.2, 1 - volatility / vol_threshold), times 10 * vol_threshold
VolScalar(volatility) ==
    Max(2 * params.vol_threshold, 10 * (params.vol_threshold - volatility))

\* mutant: max_position_value without the safety factor 0.5
PositionSize_NoSafetyFactor(cap, price, volatility) ==
    (cap * params.max_position_pct * VolScalar(volatility) * PositionLeverage(volatility))
        \div (100 * 10 * params.vol_threshold * price)

\* max_position_value = capital * max_position_pct * vol_scalar * 0.5
\* position_size = max_position_value * leverage / price
PositionSize(cap, price, volatility) ==
    (cap * params.max_position_pct * VolScalar(volatility) * PositionLeverage(volatility))
        \div (100 * 10 * params.vol_threshold * 2 * price)

\* the insertion-ordered dict self.positions as a sequence of its values,
\* each carrying its key in .symbol
StratKeys(ps) == {ps[i].symbol : i \in 1..Len(ps)}

DictSet(ps, value) ==
    IF value.symbol \in StratKeys(ps)
    THEN [i \in 1..Len(ps) |-> IF ps[i].symbol = value.symbol THEN value ELSE ps[i]]
    ELSE Append(ps, value)

RECURSIVE DictDelete(_, _)
DictDelete(ps, keys) ==
    IF ps = <<>> THEN <<>>
    ELSE IF Head(ps).symbol \in keys THEN DictDelete(Tail(ps), keys)
    ELSE <<Head(ps)>> \o DictDelete(Tail(ps), keys)

\* the index label of row idx (current_row.name) and the key it is used as: rows
\* are stamped 1, 2, ... unless a driver hands in market data with its own index
BarTime(idx) == IF run.times = <<>> THEN idx + 1 ELSE run.times[idx + 1]
BarSymbol(idx) == ToString(BarTime(idx))

\* the exit condition of a position of `side` (lines 129-131 and 148-150)
ExitCondition(side, current_spread, required_spread, current_vol, funding_rate) ==
    \/ 10 * current_spread < 8 * required_spread
    \/ 10 * current_vol > 13 * params.vol_threshold
    \/ IF side = "long"
       THEN FGreater(Times(10, funding_rate), 8 * params.funding_threshold)
       ELSE FLess(Times(10, funding_rate), 0 - 8 * params.funding_threshold)

\* the long entry condition (lines 178-180)
LongEntryCondition(current_spread, required_spread, current_vol, funding_rate) ==
    /\ 10 * current_spread > 13 * required_spread
    /\ 10 * current_vol < 8 * params.vol_threshold
    /\ FLess(Times(10, funding_rate), 5 * params.funding_threshold)

\* the short entry condition (lines 205-207)
ShortEntryCondition(current_spread, required_spread, current_vol, funding_rate) ==
    /\ 10 * current_spread > 13 * required_spread
    /\ 10 * current_vol < 8 * params.vol_threshold
    /\ FGreater(Times(10, funding_rate), 0 - 5 * params.funding_threshold)

CloseSignal(position, price, timestamp, current_spread, required_spread, funding_rate) ==
    [action |-> "close", symbol |-> position.symbol, side |-> "-", price |-> price,
     amount |-> 0, leverage |-> 0, timestamp |-> timestamp,
     reason |-> IF 10 * current_spread < 8 * required_spread
                THEN "spread_narrowing" ELSE "high_volatility",
     funding_cost |-> IF gen.has_funding
                      THEN CalculateFundingImpact(funding_rate, position.size) ELSE 0]

OpenSignal(symbol, side, price, amount, leverage, timestamp) ==
    [action |-> "open", symbol |-> symbol, side |-> side, price |-> price,
     amount |-> amount, leverage |-> leverage, timestamp |-> timestamp,
     reason |-> "spread_widening", funding_cost |-> 0]

\* the symbols the exit loop closes on this row, in the dict's order: the
\* positions not in active_symbols whose exit condition holds
RECURSIVE PositionsToClose(_, _, _, _, _)
PositionsToClose(ps, current_spread, required_spread, current_vol, funding_rate) ==
    IF ps = <<>> THEN <<>>
    ELSE LET rest == PositionsToClose(Tail(ps), current_spread, required_spread,
                                      current_vol, funding_rate)
         IN  IF /\ Head(ps).symbol \notin active_symbols
                /\ ExitCondition(Head(ps).side, current_spread, required_spread,
                                 current_vol, funding_rate)
             THEN <<Head(ps)>> \o rest
             ELSE rest

\* mutant: the entry step is taken whatever is open or was closed on the row
EntryEvaluated_Always(ps, active) == TRUE

\* mutant: the entry step is taken whenever nothing is open, whatever had a signal
EntryEvaluated_IgnoringActive(ps, active) == ps = <<>>

\* mutant: the entry step is taken whenever nothing had a signal, whatever is open
EntryEvaluated_IgnoringPositions(ps, active) == active = {}

\* whether the entry step is taken at all (line 171), given the state after the closes
EntryEvaluated(ps, active) == ps = <<>> /\ active = {}

\* generate_signals: the call starts; signals and active_symbols are fresh
GenStart(nbars, cap, has_funding) ==
    /\ gen.pc # "loop"
    /\ gen' = [pc |-> "loop", idx |-> 0, nbars |-> nbars, capital |-> cap,
               has_funding |-> has_funding, asof |-> NaN]
    /\ signals' = <<>>
    /\ active_symbols' = {}
    /\ rows_used' = rows_used + nbars
    /\ UNCHANGED <<params, strat_positions, strat_metrics>>

\* mutant: the warm-up is one row short
InWarmUp_OneRowShort(idx) == idx < params.lookback_period - 1

\* if idx < self.lookback_period: continue
InWarmUp(idx) == idx < params.lookback_period

\* generate_signals: one round of the loop over the rows, on a warm-up row
GenWarmUp ==
    /\ gen.pc = "loop"
    /\ gen.idx < gen.nbars
    /\ InWarmUp(gen.idx)
    /\ gen' = [gen EXCEPT !.idx = gen.idx + 1]
    /\ UNCHANGED <<params, strat_positions, strat_metrics, signals, active_symbols,
                   rows_used>>

\* generate_signals: one round of the loop over the rows, past the warm-up.
\* market, price: the row; arrival: the funding record that became the latest one
\* at or before this row (NaN: none did since the previous row)
GenBar(market, price, arrival) ==
    /\ gen.pc = "loop"
    /\ gen.idx < gen.nbars
    /\ ~InWarmUp(gen.idx)
    /\ LET timestamp == BarTime(gen.idx)
           current_price == price
           current_vol == market[1]
           current_spread == market[2]
           required_spread == CalculateDynamicSpread(current_vol)
           asof == IF arrival = NaN THEN gen.asof ELSE arrival
           funding_rate == IF gen.has_funding THEN asof ELSE 0
           to_close == PositionsToClose(strat_positions, current_spread,
                                        required_spread, current_vol, funding_rate)
           closes == [i \in 1..Len(to_close) |->
                        CloseSignal(to_close[i], current_price, timestamp,
                                    current_spread, required_spread, funding_rate)]
           closed == StratKeys(to_close)
           active1 == active_symbols \cup closed
           positions1 == DictDelete(strat_positions, closed)
           position_size == PositionSize(gen.capital, current_price, current_vol)
           leverage == PositionLeverage(current_vol)
           symbol == BarSymbol(gen.idx)
           side == IF LongEntryCondition(current_spread, required_spread,
                                         current_vol, funding_rate) THEN "long"
                   ELSE IF ShortEntryCondition(current_spread, required_spread,
                                               current_vol, funding_rate) THEN "short"
                   ELSE "-"
           enters == /\ EntryEvaluated(positions1, active1)
                     /\ side # "-"
                     /\ symbol \notin active1
           positions2 == IF enters
                         THEN DictSet(positions1,
                                [symbol |-> symbol, side |-> side,
                                 entry_price |-> current_price, size |-> position_size,
                                 leverage |-> leverage, entry_time |-> timestamp])
                         ELSE positions1
       IN  /\ signals' = signals \o closes \o
                 (IF enters
                  THEN <<OpenSignal(symbol, side, current_price, position_size,
                                    leverage, timestamp)>>
                  ELSE <<>>)
           /\ active_symbols' = IF enters THEN active1 \cup {symbol} ELSE active1
           /\ strat_positions' = positions2
           /\ strat_metrics' = Append(strat_metrics,
                 [timestamp |-> timestamp, price |-> current_price,
                  volatility |-> current_vol, actual_spread |-> current_spread,
                  required_spread |-> required_spread, funding_rate |-> funding_rate,
                  position_count |-> Len(positions2)])
           /\ gen' = [gen EXCEPT !.idx = gen.idx + 1, !.asof = asof]
    /\ UNCHANGED <<params, rows_used>>

\* generate_signals: the loop is over and `signals` is returned
GenReturn ==
    /\ gen.pc = "loop"
    /\ gen.idx = gen.nbars
    /\ gen' = [Idle EXCEPT !.pc = "returned"]
    /\ UNCHANGED <<params, strat_positions, strat_metrics, signals, active_symbols,
                   rows_used>>

(***************************************************************************)
(* The ledger driven through its public operations in any order.  Calls    *)
(* carry the timestamp of the simulation clock, which advances by one tick *)
(* with every call that changes the ledger's books.                        *)
(***************************************************************************)
NoRun == [driver |-> "none", pc |-> "done", idx |-> 0, nbars |-> 0, close |-> 0,
          pending |-> <<>>, times |-> <<>>]

Init == LedgerInit /\ call = NoCall /\ now = 0 /\ StrategyInit /\ run = NoRun

Tick == now' = IF <<capital, positions, trades, equity_curve>>' =
                  <<capital, positions, trades, equity_curve>>
               THEN now ELSE now + 1

DoOpen ==
    /\ now < MaxTime
    /\ \E symbol \in Symbols, side \in Sides, price \in Prices, size \in Sizes :
        OpenPosition(symbol, side, price, size[1], size[2], now + 1)
    /\ Tick
    /\ UNCHANGED <<strategy, run>>

DoClose ==
    /\ now < MaxTime
    /\ \E symbol \in Symbols, price \in Prices, funding_cost \in FundingCosts :
        ClosePosition(symbol, price, now + 1, funding_cost)
    /\ Tick
    /\ UNCHANGED <<strategy, run>>

DoUpdateEquity ==
    /\ now < MaxTime
    /\ \E prices \in PriceMaps : UpdateEquity(now + 1, prices)
    /\ Tick
    /\ UNCHANGED <<strategy, run>>

DoCalculateMetrics == CalculateMetrics /\ UNCHANGED <<now, strategy, run>>

Next == DoOpen \/ DoClose \/ DoUpdateEquity \/ DoCalculateMetrics

Spec == Init /\ [][Next]_vars

(***************************************************************************)
(* The statistics.  StatisticsSpec: calculate_metrics on a ledger with a   *)
(* history; the ledger (no fee, no slippage) has closed up to MaxLogged    *)
(* longs of amount 1 entered at 100, and has up to MaxPoints equity        *)
(* points.  SeriesSpec: the statistics functions called on their own, the  *)
(* static ones with a series of up to MaxPoints entries as argument.       *)
(***************************************************************************)
EquityValues == {Money(900), Money(1100)}
ExitPrices == {90, 110}
ReturnValues == {NaNReturn, Return(0 - 1, 10), Return(1, 10)}

SeqsUpTo(n, S) == UNION {[1..k -> S] : k \in 0..n}

EquityCurves ==
    {[i \in 1..Len(e) |-> <<i, e[i]>>] : e \in SeqsUpTo(MaxPoints, EquityValues)}

\* the trade history left by longs opened at 2k - 1 and closed at 2k at the exits
TradeLog(exits) ==
    [k \in 1..Len(exits) |->
        NewTrade(NewPosition("BTC/USD", "long", 100, 1, 1, 2 * k - 1),
                 ExitExecutedPrice(exits[k], "long"), 2 * k, 0)]

StatisticsInit ==
    /\ initial_capital \in InitialCapitals
    /\ trading_fee = 0
    /\ slippage = 0
    /\ positions = {}
    /\ trades \in {TradeLog(exits) : exits \in SeqsUpTo(MaxLogged, ExitPrices)}
    /\ capital = initial_capital + SumPnl(trades)
    /\ equity_curve \in EquityCurves
    /\ metrics = [computed |-> FALSE]
    /\ call = NoCall /\ now = 0 /\ StrategyInit /\ run = NoRun

\* a statistics function called on its own: the call keeps argument and result
StatCall(op, argument, result) ==
    call' = Call(op, [argument |-> argument, result |-> result])

DoMaxDrawdown ==
    /\ \E equity \in SeqsUpTo(MaxPoints, EquityValues) :
        StatCall("calculate_max_drawdown", equity, CalculateMaxDrawdown(equity))
    /\ UNCHANGED <<ledger, now, strategy, run>>

DoSharpeRatio ==
    /\ \E returns \in SeqsUpTo(MaxPoints, ReturnValues) :
        StatCall("calculate_sharpe_ratio", returns, CalculateSharpeRatio(returns))
    /\ UNCHANGED <<ledger, now, strategy, run>>

DoSortinoRatio ==
    /\ \E returns \in SeqsUpTo(MaxPoints, ReturnValues) :
        StatCall("calculate_sortino_ratio", returns, CalculateSortinoRatio(returns))
    /\ UNCHANGED <<ledger, now, strategy, run>>

DoProfitFactor ==
    /\ StatCall("calculate_profit_factor", trades, CalculateProfitFactor(trades))
    /\ UNCHANGED <<ledger, now, strategy, run>>

StatisticsNext == DoCalculateMetrics

StatisticsSpec == StatisticsInit /\ [][StatisticsNext]_vars

\* a ledger with trades and no equity point yet
SeriesInit == StatisticsInit /\ equity_curve = <<>>

SeriesNext == DoMaxDrawdown \/ DoSharpeRatio \/ DoSortinoRatio \/ DoProfitFactor

SeriesSpec == SeriesInit /\ [][SeriesNext]_vars

(***************************************************************************)
(* RiskManager (src/strategies/risk_manager.py).  Its methods here are     *)
(* functions of the manager's settings and their arguments; a call keeps   *)
(* the settings (self), the arguments and the result.  margin_ratio,       *)
(* margin_buffer and volatility are held in hundredths.                    *)
(***************************************************************************)
MaxLeverages  == {1, 3, 5}
MarginBuffers == {0, 20}
MarginRatios  == {0, 10, 20, 30, 50, 100}
Volatilities  == {0, 2, 5, 50}

\* mutant: the risk score is not clamped
CalculateLiquidationRisk_Unclamped(max_leverage, self_margin_buffer, margin_ratio, volatility) ==
    LET margin_buffer == margin_ratio - self_margin_buffer
    IN  IF margin_buffer <= 0 THEN Stat("ratio", 1, 1)
        ELSE Stat("ratio", volatility * max_leverage, margin_buffer)

\* calculate_liquidation_risk: 1.0 for margin_ratio - self.margin_buffer <= 0,
\* else min(max(volatility * max_leverage / margin_buffer, 0), 1)
CalculateLiquidationRisk(max_leverage, self_margin_buffer, margin_ratio, volatility) ==
    LET margin_buffer == margin_ratio - self_margin_buffer
        risk_score == volatility * max_leverage
    IN  IF margin_buffer <= 0 THEN Stat("ratio", 1, 1)
        ELSE IF risk_score < 0 THEN Stat("ratio", 0, 1)
        ELSE IF risk_score > margin_buffer THEN Stat("ratio", 1, 1)
        ELSE Stat("ratio", risk_score, margin_buffer)

DoLiquidationRisk ==
    /\ \E max_leverage \in MaxLeverages, margin_buffer \in MarginBuffers,
          margin_ratio \in MarginRatios, volatility \in Volatilities :
        call' = Call("calculate_liquidation_risk",
                     [self |-> [max_leverage |-> max_leverage,
                                margin_buffer |-> margin_buffer],
                      argument |-> [margin_ratio |-> margin_ratio,
                                    volatility |-> volatility],
                      result |-> CalculateLiquidationRisk(max_leverage, margin_buffer,
                                                          margin_ratio, volatility)])
    /\ UNCHANGED <<ledger, now, strategy, run>>

\* the limits of a RiskManager built with the defaults of __init__, in hundredths
RiskLimits ==
    [max_spread |-> 2, max_volatility |-> 5, min_funding_rate |-> 0 - 1,
     margin_buffer |-> 20]

\* the RiskMetrics snapshots: each value below, at and beyond its limit
\* (liquidation_risk against the 0.5 of check_risk_limits)
RiskSnapshots ==
    [spread : {1, 2, 3}, volatility : {4, 5, 6}, funding_rate : {0 - 2, 0 - 1, 0},
     margin_ratio : {10, 20, 30}, liquidation_risk : {40, 50, 60}]

\* check_risk_limits
CheckRiskLimits(self, snapshot) ==
    [spread_limit |-> snapshot.spread > self.max_spread,
     volatility_limit |-> snapshot.volatility > self.max_volatility,
     funding_limit |-> snapshot.funding_rate < self.min_funding_rate,
     margin_limit |-> snapshot.margin_ratio < self.margin_buffer,
     liquidation_risk |-> snapshot.liquidation_risk > 50]

\* mutant: the spread limit is looked at before the liquidation risk
ShouldClosePosition_SpreadFirst(self, snapshot) ==
    LET limits == CheckRiskLimits(self, snapshot)
    IN  IF limits.spread_limit THEN <<TRUE, "Spread exceeded limit">>
        ELSE IF limits.liquidation_risk THEN <<TRUE, "High liquidation risk">>
        ELSE IF limits.volatility_limit THEN <<TRUE, "Volatility too high">>
        ELSE IF limits.funding_limit THEN <<TRUE, "Negative funding rate">>
        ELSE IF limits.margin_limit THEN <<TRUE, "Low margin ratio">>
        ELSE <<FALSE, "">>

\* should_close_position
ShouldClosePosition(self, snapshot) ==
    LET limits == CheckRiskLimits(self, snapshot)
    IN  IF limits.liquidation_risk THEN <<TRUE, "High liquidation risk">>
        ELSE IF limits.spread_limit THEN <<TRUE, "Spread exceeded limit">>
        ELSE IF limits.volatility_limit THEN <<TRUE, "Volatility too high">>
        ELSE IF limits.funding_limit THEN <<TRUE, "Negative funding rate">>
        ELSE IF limits.margin_limit THEN <<TRUE, "Low margin ratio">>
        ELSE <<FALSE, "">>

DoShouldClose ==
    /\ \E snapshot \in RiskSnapshots :
        call' = Call("should_close_position",
                     [self |-> RiskLimits, argument |-> snapshot,
                      result |-> ShouldClosePosition(RiskLimits, snapshot)])
    /\ UNCHANGED <<ledger, now, strategy, run>>

(***************************************************************************)
(* calculate_volatility.  The model does not evaluate logarithms and roots: *)
(* a volatility is held as what it is computed from.  Kind "stdev" is the  *)
(* standard deviation (with the given ddof) of the log returns between the *)
(* consecutive prices of `over`, times sqrt(periods); "zero" is 0.0 and    *)
(* "nan" is NaN.                                                           *)
(***************************************************************************)
DefaultWindow == 20
RiskManagerPeriods == 252
StrategyPeriods == 24

Vol(kind, over, ddof, periods) ==
    [kind |-> kind, over |-> over, ddof |-> ddof, periods |-> periods]
VolZero == Vol("zero", <<>>, 0, 0)
VolNaN == Vol("nan", <<>>, 0, 0)

HistoryPrices == {100, 101}
PriceHistories == SeqsUpTo(MaxHistory, HistoryPrices)
Windows == {1, 2, DefaultWindow}

\* price_history[-window:] for window >= 1
LastPrices(price_history, window) ==
    IF Len(price_history) <= window THEN price_history
    ELSE SubSeq(price_history, Len(price_history) - window + 1, Len(price_history))

\* RiskManager.calculate_volatility: 0.0 for a history shorter than window, else
\* np.std (ddof 0) of np.diff(np.log(price_history[-window:])) * sqrt(252); the
\* np.std of no return at all is NaN
RiskCalculateVolatility(price_history, window) ==
    IF Len(price_history) < window THEN VolZero
    ELSE IF Len(LastPrices(price_history, window)) < 2 THEN VolNaN
    ELSE Vol("stdev", LastPrices(price_history, window), 0, RiskManagerPeriods)

\* VolatilityAdaptiveStrategy.calculate_volatility, the entry of the result at
\* row idx (from 0): rolling(window).std() (ddof 1) of the log returns, of which
\* row 0 has none, times sqrt(24); NaN until `window` returns are there, and the
\* std of a single return is NaN
StrategyCalculateVolatility(closes, window, idx) ==
    IF idx < window \/ window < 2 THEN VolNaN
    ELSE Vol("stdev", SubSeq(closes, idx + 1 - window, idx + 1), 1, StrategyPeriods)

DoRiskVolatility ==
    /\ \E price_history \in PriceHistories, window \in Windows :
        call' = Call("RiskManager.calculate_volatility",
                     [argument |-> [prices |-> price_history, window |-> window],
                      result |-> RiskCalculateVolatility(price_history, window)])
    /\ UNCHANGED <<ledger, now, strategy, run>>

DoStrategyVolatility ==
    /\ \E closes \in PriceHistories \ {<<>>}, window \in Windows :
        call' = Call("VolatilityAdaptiveStrategy.calculate_volatility",
                     [argument |-> [prices |-> closes, window |-> window],
                      result |-> [i \in 1..Len(closes) |->
                                    StrategyCalculateVolatility(closes, window, i - 1)]])
    /\ UNCHANGED <<ledger, now, strategy, run>>

RiskNext == DoLiquidationRisk \/ DoShouldClose \/ DoRiskVolatility \/ DoStrategyVolatility

\* nothing else is in use while the RiskManager is exercised
RiskInit == Init /\ trading_fee = 0 /\ slippage = 0

RiskSpec == RiskInit /\ [][RiskNext]_vars

(***************************************************************************)
(* One strategy instance handed market data in successive generate_signals *)
(* calls, MaxRows rows in all.                                             *)
(***************************************************************************)
FundingArrivals == IF gen.has_funding THEN FundingRates \cup {NaN} ELSE {NaN}

CallGenerateSignals ==
    /\ \E nbars \in 1..(MaxRows - rows_used), cap \in StrategyCapitals,
          has_funding \in BOOLEAN :
        GenStart(nbars, cap, has_funding)
    /\ UNCHANGED <<ledger, call, now, run>>

WarmUpRow == GenWarmUp /\ UNCHANGED <<ledger, call, now, run>>

Row ==
    /\ \E market \in Markets, price \in BarPrices, arrival \in FundingArrivals :
        GenBar(market, price, arrival)
    /\ UNCHANGED <<ledger, call, now, run>>

ReturnSignals == GenReturn /\ UNCHANGED <<ledger, call, now, run>>

StrategyNext == CallGenerateSignals \/ WarmUpRow \/ Row \/ ReturnSignals

StrategyInitial == Init /\ trading_fee = 0 /\ slippage = 0

\* __init__ stores whatever it is given: also a min_spread above max_spread
AcceptedConfigs ==
    StrategyConfigs \cup
    {[c EXCEPT !.min_spread = c.max_spread, !.max_spread = c.min_spread] :
        c \in StrategyConfigs}

ConstructedInit ==
    /\ LedgerInit /\ trading_fee = 0 /\ slippage = 0
    /\ call = NoCall /\ now = 0 /\ run = NoRun
    /\ params \in AcceptedConfigs
    /\ strat_positions = <<>>
    /\ strat_metrics = <<>>
    /\ gen = Idle
    /\ signals = <<>>
    /\ active_symbols = {}
    /\ rows_used = 0

ConstructedSpec == ConstructedInit /\ [][StrategyNext]_vars

StrategySpec == StrategyInitial /\ [][StrategyNext]_vars

(***************************************************************************)
(* Position sizing: the strategy constructed with its defaults or with a   *)
(* wide volatility threshold and a high leverage cap, on rows that include *)
(* a zero volatility and a volatility whose 2 / v is below the cap.        *)
(***************************************************************************)
\* vol_threshold = 0.1, max_leverage = 100 and max_position_pct = 0.3 in the second
SizingConfigs ==
    StrategyConfigs \cup
    {[c EXCEPT !.vol_threshold = 100,
               !.max_leverage = 100,
               !.max_position_pct = 30] : c \in StrategyConfigs}

SizingMarkets  == {<<0, 8>>, <<10, 8>>, <<40, 8>>, <<10, 3>>}
SizingCapitals == {200}

SizingInit ==
    /\ LedgerInit /\ trading_fee = 0 /\ slippage = 0
    /\ call = NoCall /\ now = 0 /\ run = NoRun
    /\ params \in SizingConfigs
    /\ strat_positions = <<>>
    /\ strat_metrics = <<>>
    /\ gen = Idle
    /\ signals = <<>>
    /\ active_symbols = {}
    /\ rows_used = 0

SizingCall ==
    /\ \E nbars \in 1..(MaxRows - rows_used), cap \in SizingCapitals,
          has_funding \in BOOLEAN :
        GenStart(nbars, cap, has_funding)
    /\ UNCHANGED <<ledger, call, now, run>>

SizingRow ==
    /\ \E market \in SizingMarkets, price \in BarPrices, arrival \in FundingArrivals :
        GenBar(market, price, arrival)
    /\ UNCHANGED <<ledger, call, now, run>>

SizingNext == SizingCall \/ WarmUpRow \/ SizingRow \/ ReturnSignals

SizingSpec == SizingInit /\ [][SizingNext]_vars

(***************************************************************************)
(* The two drivers.                                                        *)
(*   "engine":     run_backtest of backtesting/backtest_engine.py, which   *)
(*                 asks a strategy function for signals row by row;        *)
(*   "volatility": run_backtest of backtest_volatility_strategy.py, which  *)
(*                 has VolatilityAdaptiveStrategy generate all the signals *)
(*                 and then applies them.                                  *)
(* Both build the ledger with a positive fee and slippage (0.001, 0.0005), *)
(* for which the positive rates of the model stand.  The index of the      *)
(* market data is an input: the timestamps 1, 2, ... or a series in which  *)
(* one timestamp is repeated or two are out of order.                      *)
(***************************************************************************)
Drivers == {"engine", "volatility"}

\* the index of the market data a driver is given: well-formed, with the first
\* timestamp repeated, with the first two timestamps swapped
BarSeries(nbars) ==
    {[i \in 1..nbars |-> i],
     [i \in 1..nbars |-> IF i = 1 THEN 1 ELSE i - 1],
     [i \in 1..nbars |-> IF i = 1 THEN 2 ELSE IF i = 2 THEN 1 ELSE i]}

\* what the strategy function handed to the "engine" driver may return for a row
EngineSignalLists ==
    {<<>>,
     <<OpenSignal("BTC/USD", "long", 0, 1, 1, 0)>>,
     <<OpenSignal("ETH/USD", "short", 0, 1, 1, 0)>>,
     <<[OpenSignal("BTC/USD", "-", 0, 0, 0, 0) EXCEPT !.action = "close"]>>,
     <<[OpenSignal("ETH/USD", "-", 0, 0, 0, 0) EXCEPT !.action = "close"]>>}

DriverInit ==
    /\ initial_capital \in {Money(c) : c \in StrategyCapitals}
    /\ capital = initial_capital
    /\ trading_fee \in {r \in FeeRates : r > 0}
    /\ slippage \in {r \in SlipRates : r > 0}
    /\ positions = {} /\ trades = <<>> /\ equity_curve = <<>>
    /\ metrics = [computed |-> FALSE]
    /\ call = NoCall /\ now = 0
    /\ StrategyInit
    /\ \E driver \in Drivers, nbars \in 1..MaxBars :
         \E times \in BarSeries(nbars) :
            run = [driver |-> driver, pc |-> "start", idx |-> 0, nbars |-> nbars,
                   close |-> 0, pending |-> <<>>, times |-> times]

\* either driver applying one signal to the ledger (engine lines 305-323,
\* volatility lines 94-110); price and timestamp are the row's for the engine
\* driver and the signal's for the volatility driver
ApplySignal(signal, price, timestamp) ==
    IF signal.action = "open"
    THEN OpenPosition(signal.symbol, signal.side, price, signal.amount,
                      signal.leverage, timestamp)
    ELSE IF signal.action = "close"
    THEN ClosePosition(signal.symbol, price, timestamp, signal.funding_cost)
    ELSE UNCHANGED <<ledger, call>>

\* engine driver: the loop reaches a row and asks the strategy function for signals
EngineRow ==
    /\ run.driver = "engine"
    /\ run.pc \in {"start", "row"}
    /\ run.idx < run.nbars
    /\ \E close \in Prices, sigs \in EngineSignalLists :
         run' = [run EXCEPT !.pc = "signals", !.close = close, !.pending = sigs]
    /\ UNCHANGED <<ledger, call, now, strategy>>

\* engine driver: the next signal of the row is applied
EngineSignal ==
    /\ run.driver = "engine"
    /\ run.pc = "signals"
    /\ run.pending # <<>>
    /\ ApplySignal(Head(run.pending), run.close, BarTime(run.idx))
    /\ run' = [run EXCEPT !.pending = Tail(run.pending)]
    /\ UNCHANGED <<now, strategy>>

\* engine driver: the row's signals are applied; engine.update_equity(idx, {'BTC/USD': close})
EngineUpdateEquity ==
    /\ run.driver = "engine"
    /\ run.pc = "signals"
    /\ run.pending = <<>>
    /\ UpdateEquity(BarTime(run.idx), [s \in {"BTC/USD"} |-> run.close])
    /\ run' = [run EXCEPT !.pc = "row", !.idx = run.idx + 1]
    /\ UNCHANGED <<now, strategy>>

\* engine driver: the loop is over; engine.calculate_metrics() and return
EngineFinish ==
    /\ run.driver = "engine"
    /\ run.pc \in {"start", "row"}
    /\ run.idx = run.nbars
    /\ CalculateMetrics
    /\ run' = [run EXCEPT !.pc = "done"]
    /\ UNCHANGED <<now, strategy>>

\* volatility driver: strategy.generate_signals(market_data, initial_capital, funding_data)
VolatilityGenerate ==
    /\ run.driver = "volatility"
    /\ run.pc = "start"
    /\ GenStart(run.nbars, initial_capital \div MoneyDen, TRUE)
    /\ run' = [run EXCEPT !.pc = "generate"]
    /\ UNCHANGED <<ledger, call, now>>

VolatilityWarmUpRow ==
    /\ run.pc = "generate"
    /\ GenWarmUp
    /\ UNCHANGED <<ledger, call, now, run>>

\* the close prices of the market data handed to the volatility driver
DriverBarPrices == {50, 100}

VolatilityRow ==
    /\ run.pc = "generate"
    /\ \E market \in Markets, price \in DriverBarPrices, arrival \in FundingArrivals :
        GenBar(market, price, arrival)
    /\ UNCHANGED <<ledger, call, now, run>>

VolatilityReturn ==
    /\ run.pc = "generate"
    /\ GenReturn
    /\ run' = [run EXCEPT !.pc = "signals", !.pending = signals]
    /\ UNCHANGED <<ledger, call, now>>

\* volatility driver: the next generated signal is applied
VolatilitySignal ==
    /\ run.driver = "volatility"
    /\ run.pc = "signals"
    /\ run.pending # <<>>
    /\ ApplySignal(Head(run.pending), Head(run.pending).price,
                   Head(run.pending).timestamp)
    /\ run' = [run EXCEPT !.pending = Tail(run.pending)]
    /\ UNCHANGED <<now, strategy>>

\* volatility driver: the signals are applied; engine.calculate_metrics() and return
VolatilityFinish ==
    /\ run.driver = "volatility"
    /\ run.pc = "signals"
    /\ run.pending = <<>>
    /\ CalculateMetrics
    /\ run' = [run EXCEPT !.pc = "done"]
    /\ UNCHANGED <<now, strategy>>

DriverNext ==
    \/ EngineRow \/ EngineSignal \/ EngineUpdateEquity \/ EngineFinish
    \/ VolatilityGenerate \/ VolatilityWarmUpRow \/ VolatilityRow \/ VolatilityReturn
    \/ VolatilitySignal \/ VolatilityFinish

DriverSpec == DriverInit /\ [][DriverNext]_vars

(***************************************************************************)
(* Claims about the ledger, checked under Spec.                            *)
(*                                                                         *)
(* A claim about one operation is an action property: whenever a step is   *)
(* that operation called with some arguments in the state before the step, *)
(* the state after the step is what the claim says.  What the claim says   *)
(* is written out from the claim, not through the definitions above.       *)
(***************************************************************************)
Last(s) == s[Len(s)]
OpenSymbols == {p.symbol : p \in positions}
OpenAt(symbol) == {p \in positions : p.symbol = symbol}
books == <<capital, positions, trades, equity_curve>>

\* C1: after any sequence of open_position, close_position, update_equity and
\* calculate_metrics calls, every symbol has at most one open Position.
C1_AtMostOneOpenPositionPerSymbol ==
    \A symbol \in Symbols : Cardinality(OpenAt(symbol)) <= 1

\* both symbols are open and a further open_position has just been refused
C1_Witness ==
    /\ Cardinality(positions) = 2
    /\ call = Call("open_position", "false")

\* C2 (as claimed): whenever no position is open, capital equals the capital
\* before the first open plus the sum over the recorded trades of
\* pnl - fees - funding_cost.
RECURSIVE C2_TradeLogNet(_)
C2_TradeLogNet(ts) ==
    IF ts = <<>> THEN 0
    ELSE Head(ts).pnl - Head(ts).fees - Head(ts).funding_cost + C2_TradeLogNet(Tail(ts))

C2_CapitalReproducibleFromTradeLog ==
    positions = {} => capital = initial_capital + C2_TradeLogNet(trades)

\* C3: open_position returns true and stores a Position for the symbol exactly
\* when the symbol has no open position and price * amount / leverage does not
\* exceed the capital; in every other case it returns false.
C3_Accepts(symbol, price, amount, leverage) ==
    /\ symbol \notin OpenSymbols
    /\ price * amount * MoneyDen <= capital * leverage

C3_OpenSucceedsExactlyWhenFlatAndFunded ==
    [][call'.op = "open_position" =>
       \A symbol \in Symbols, side \in Sides, price \in Prices, size \in Sizes :
         OpenPosition(symbol, side, price, size[1], size[2], now + 1) =>
            IF C3_Accepts(symbol, price, size[1], size[2])
            THEN /\ call'.returned = "true"
                 /\ \E p \in positions' : p.symbol = symbol /\ p \notin positions
            ELSE /\ call'.returned = "false"
                 /\ positions' = positions]_vars

\* capital 1000, nothing open, and an open_position (margin 2000 or 1100) refused
C3_Witness ==
    /\ call = Call("open_position", "false")
    /\ positions = {}
    /\ capital = Money(1000)

\* C4: a rejected operation (open_position on a symbol that has a position or
\* whose margin exceeds capital, close_position on a symbol with no position)
\* returns a negative result and leaves capital, the open positions, the trade
\* history and the equity curve unchanged.
C4_RejectedOperationChangesNothing ==
    [][/\ call'.op = "open_position" =>
          \A symbol \in Symbols, side \in Sides, price \in Prices, size \in Sizes :
            /\ OpenPosition(symbol, side, price, size[1], size[2], now + 1)
            /\ \/ symbol \in OpenSymbols
               \/ price * size[1] * MoneyDen > capital * size[2]
            => call'.returned = "false" /\ UNCHANGED books
       /\ call'.op = "close_position" =>
          \A symbol \in Symbols, price \in Prices, funding_cost \in FundingCosts :
            /\ ClosePosition(symbol, price, now + 1, funding_cost)
            /\ symbol \notin OpenSymbols
            => call'.returned = "none" /\ UNCHANGED books
       /\ call' \in {Call("open_position", "false"), Call("close_position", "none")}
            => UNCHANGED books]_vars

\* a position is open, fees have been paid, and a close_position has been refused
C4_Witness ==
    /\ call = Call("close_position", "none")
    /\ Cardinality(positions) = 1
    /\ capital < initial_capital

\* C5: close_position computes the realized P&L as (exit - entry) * size for a
\* long and (entry - exit) * size for a short from the executed prices and
\* changes capital by P&L - exit_fee - funding_cost, the exit fee being executed
\* exit price * size * fee rate; with fee 0 and slippage 0 a long opened at 100
\* (amount 1, leverage 1) and closed at 110 gives pnl 10 and capital + 10.
C5_CloseRealizesPnl ==
    [][call'.op = "close_position" =>
       \A symbol \in Symbols, price \in Prices, funding_cost \in FundingCosts :
         ClosePosition(symbol, price, now + 1, funding_cost) /\ symbol \in OpenSymbols =>
            \E p \in OpenAt(symbol) :
                LET t == Last(trades')
                    diff == IF p.side = "long" THEN t.exit_price - p.entry_price
                            ELSE p.entry_price - t.exit_price
                    exit_fee == t.exit_price * p.amount * trading_fee
                IN  /\ Len(trades') = Len(trades) + 1
                    /\ t.pnl = diff * p.amount * RateDen
                    /\ t.fees = exit_fee
                    /\ capital' - capital = t.pnl - exit_fee - funding_cost
                    /\ (/\ trading_fee = 0 /\ slippage = 0 /\ funding_cost = 0
                        /\ p.side = "long" /\ p.entry_price = 100 * RateDen
                        /\ p.amount = 1 /\ price = 110)
                       => t.pnl = Money(10) /\ capital' = capital + Money(10)]_vars

\* Scenario A has run: fee 0, slippage 0, one long trade 100 -> 110 of amount 1
C5_Witness ==
    /\ trading_fee = 0 /\ slippage = 0
    /\ call = Call("close_position", "trade")
    /\ Len(trades) = 1
    /\ trades[1].side = "long" /\ trades[1].amount = 1
    /\ trades[1].pnl = Money(10)
    /\ capital = initial_capital + Money(10)

\* C6: slippage works against the trader: a long enters at price * (1 + s) and
\* exits at price * (1 - s), a short enters at price * (1 - s) and exits at
\* price * (1 + s); so with s > 0 a position opened and closed at the same
\* requested price has strictly negative realized P&L, on both sides.
C6_SlippageAgainstTrader ==
    [][/\ call' = Call("open_position", "true") =>
          \A symbol \in Symbols, side \in Sides, price \in Prices, size \in Sizes :
            /\ OpenPosition(symbol, side, price, size[1], size[2], now + 1)
            /\ call'.returned = "true"
            => \E p \in positions' \ positions :
                  p.entry_price = IF side = "long" THEN price * (RateDen + slippage)
                                  ELSE price * (RateDen - slippage)
       /\ call' = Call("close_position", "trade") =>
          \A symbol \in Symbols, price \in Prices, funding_cost \in FundingCosts :
            /\ ClosePosition(symbol, price, now + 1, funding_cost)
            /\ call'.returned = "trade"
            => LET t == Last(trades')
               IN  /\ t.exit_price = IF t.side = "long" THEN price * (RateDen - slippage)
                                     ELSE price * (RateDen + slippage)
                   /\ (/\ slippage > 0
                       /\ t.entry_price = IF t.side = "long"
                                          THEN price * (RateDen + slippage)
                                          ELSE price * (RateDen - slippage))
                      => t.pnl < 0]_vars

\* with slippage and no fee, a short was opened and closed at the same requested
\* price, at a loss
C6_Witness ==
    /\ slippage > 0 /\ trading_fee = 0
    /\ Len(trades) = 1
    /\ trades[1].side = "short"
    /\ trades[1].entry_price = 100 * (RateDen - slippage)
    /\ trades[1].exit_price = 100 * (RateDen + slippage)
    /\ trades[1].pnl < 0

C8_Unrealized(p, current_price) ==
    IF p.side = "long"
    THEN (current_price * RateDen - p.entry_price) * p.amount * RateDen
    ELSE (p.entry_price - current_price * RateDen) * p.amount * RateDen

\* the unrealized P&L of the positions of ps that prices quotes
RECURSIVE C8_Sum(_, _)
C8_Sum(ps, prices) ==
    IF ps = {} THEN 0
    ELSE LET p == CHOOSE q \in ps : TRUE
         IN  (IF p.symbol \in DOMAIN prices THEN C8_Unrealized(p, prices[p.symbol]) ELSE 0)
             + C8_Sum(ps \ {p}, prices)

C8_AppendsOnePoint(value) ==
    /\ Len(equity_curve') = Len(equity_curve) + 1
    /\ SubSeq(equity_curve', 1, Len(equity_curve)) = equity_curve
    /\ Last(equity_curve') = <<now + 1, value>>
    /\ UNCHANGED <<capital, positions, trades>>

C8_EveryOpenPositionValued ==
    [][call'.op = "update_equity" =>
       \A prices \in PriceMaps :
         UpdateEquity(now + 1, prices) =>
            /\ \A p \in positions : p.symbol \in DOMAIN prices
            /\ C8_AppendsOnePoint(capital + C8_Sum(positions, prices))]_vars

\* C8 (amended): the point is (timestamp, capital + the unrealized P&L of every
\* open position whose symbol the price map quotes, valued at that quote with no
\* slippage); an open position whose symbol the map does not quote adds nothing.
C8_QuotedOpenPositionsValued ==
    [][call'.op = "update_equity" =>
       \A prices \in PriceMaps :
         UpdateEquity(now + 1, prices) =>
            C8_AppendsOnePoint(capital + C8_Sum(positions, prices))]_vars

\* an equity point was appended while two positions were open, and it differs
\* from the cash capital: unrealized P&L is in it
C8_Witness ==
    /\ call = Call("update_equity", "none")
    /\ Cardinality(positions) = 2
    /\ Last(equity_curve)[1] = now
    /\ Last(equity_curve)[2] # capital

(***************************************************************************)
(* Claims about the drivers, checked under DriverSpec.                     *)
(***************************************************************************)
StrictlyIncreasing(times) ==
    \A i, j \in 1..Len(times) : i < j => times[i] < times[j]

StrictlyIncreasingTimes(curve) ==
    \A i, j \in 1..Len(curve) : i < j => curve[i][1] < curve[j][1]

\* C9 (as claimed): after a driver has run over N bars with strictly increasing
\* timestamps, the equity curve holds exactly one point per bar, with strictly
\* increasing timestamps; for both drivers.
C9_OneEquityPointPerBar ==
    (run.driver \in Drivers /\ run.pc = "done" /\ StrictlyIncreasing(run.times)) =>
        /\ Len(equity_curve) = run.nbars
        /\ StrictlyIncreasingTimes(equity_curve)

\* the part of C9 that the engine driver meets (not a claim of its own)
EngineDriverOneEquityPointPerBar ==
    (run.driver = "engine" /\ run.pc = "done") =>
        /\ Len(equity_curve) = run.nbars
        /\ \A i \in 1..Len(equity_curve) : equity_curve[i][1] = BarTime(i - 1)

(***************************************************************************)
(* Claims about the strategy, checked under StrategySpec.                  *)
(***************************************************************************)
\* the funding rate a row is evaluated with, as generate_signals looks it up
RowFundingRate(arrival) ==
    IF ~gen.has_funding THEN 0 ELSE IF arrival = NaN THEN gen.asof ELSE arrival

\* "the entry conditions hold": actual > 1.3 * required and v < 0.8 * vol_threshold
\* and f < 0.5 * funding_threshold (long) or f > -0.5 * funding_threshold (short)
EntryConditionsHold(market, f) ==
    LET v == market[1]
        actual == market[2]
        with2v == params.min_spread + 2 * v
        required == IF with2v < params.max_spread THEN with2v ELSE params.max_spread
    IN  /\ 10 * actual > 13 * required
        /\ 10 * v < 8 * params.vol_threshold
        /\ f # NaN
        /\ \/ 10 * f < 5 * params.funding_threshold
           \/ 10 * f > 0 - 5 * params.funding_threshold

\* C10 (as claimed): the state machine is re-entrant within one generate_signals
\* run: once a position has been opened and later closed, a later row on which no
\* symbol is open, no close happens and the entry conditions hold produces a new
\* open signal.
C10_ReentrantAfterClose ==
    [][\A market \in Markets, price \in BarPrices, arrival \in FundingArrivals :
         /\ GenBar(market, price, arrival)
         /\ \E i \in 1..Len(signals) : signals[i].action = "close"
         /\ strat_positions = <<>>
         /\ EntryConditionsHold(market, RowFundingRate(arrival))
         => /\ Len(signals') = Len(signals) + 1
            /\ Last(signals').action = "open"]_vars

\* the signals a step appended to `signals`
NewSignals == SubSeq(signals', Len(signals) + 1, Len(signals'))

\* the required spread of a row of volatility v: min(min_spread + 2 v, max_spread)
RequiredOf(v) ==
    IF params.min_spread + 2 * v < params.max_spread
    THEN params.min_spread + 2 * v ELSE params.max_spread

\* the exit condition of the claim for a position of `side`, on a row of
\* volatility v, actual spread `actual` and funding rate f
C11_ExitHolds(side, v, actual, f) ==
    \/ 10 * actual < 8 * RequiredOf(v)
    \/ 10 * v > 13 * params.vol_threshold
    \/ /\ f # NaN
       /\ IF side = "long" THEN 10 * f > 8 * params.funding_threshold
          ELSE 10 * f < 0 - 8 * params.funding_threshold

\* C11 (as claimed): on every row past the warm-up on which a position is held
\* and its exit condition holds, a close signal for the position's symbol is
\* emitted on that row and the position leaves the strategy's positions; also
\* for a position opened on an earlier row of the same generate_signals run.
C11_ExitConditionClosesPosition ==
    [][\A market \in Markets, price \in BarPrices, arrival \in FundingArrivals :
         GenBar(market, price, arrival) =>
            \A k \in 1..Len(strat_positions) :
               C11_ExitHolds(strat_positions[k].side, market[1], market[2],
                             RowFundingRate(arrival))
               => /\ \E i \in 1..Len(NewSignals) :
                        /\ NewSignals[i].action = "close"
                        /\ NewSignals[i].symbol = strat_positions[k].symbol
                        /\ NewSignals[i].timestamp = BarTime(gen.idx)
                  /\ strat_positions[k].symbol \notin StratKeys(strat_positions')]_vars

\* C12: every open signal is emitted on a row before whose entry step the
\* strategy held no position and on which no close signal was emitted, with
\* actual > 1.3 * required and v < 0.8 * vol_threshold, and f < 0.5 *
\* funding_threshold for a long, f > -0.5 * funding_threshold for a short.
C12_OpenOnlyWhenFlatAndConditionsHold ==
    [][\A market \in Markets, price \in BarPrices, arrival \in FundingArrivals :
         GenBar(market, price, arrival) =>
            \A i \in 1..Len(NewSignals) :
               NewSignals[i].action = "open" =>
                  LET f == RowFundingRate(arrival)
                  IN  /\ strat_positions = <<>>
                      /\ \A j \in 1..Len(NewSignals) : NewSignals[j].action # "close"
                      /\ 10 * market[2] > 13 * RequiredOf(market[1])
                      /\ 10 * market[1] < 8 * params.vol_threshold
                      /\ f # NaN
                      /\ NewSignals[i].side \in Sides
                      /\ NewSignals[i].side = "long"
                            => 10 * f < 5 * params.funding_threshold
                      /\ NewSignals[i].side = "short"
                            => 10 * f > 0 - 5 * params.funding_threshold]_vars

\* a short is the last signal of the call in progress, opened (under a funding
\* rate that rules the long out) after at least two rows that opened nothing
C12_Witness ==
    /\ signals # <<>>
    /\ Last(signals).action = "open"
    /\ Last(signals).side = "short"
    /\ Len(strat_positions) = 1
    /\ Len(strat_metrics) >= 3

\* C13: generate_signals emits no signal for a row whose index is below
\* lookback_period, whatever the strategy holds from earlier calls: such a row
\* leaves `signals` and the positions as they are, and every signal carries the
\* timestamp of a row past the warm-up.
C13_NoSignalDuringWarmUp ==
    [][(gen.pc = "loop" /\ gen'.pc = "loop" /\ gen.idx < params.lookback_period)
          => signals' = signals /\ strat_positions' = strat_positions]_vars

\* the warm-up rows of a call have just been passed, by an instance that holds a
\* position from an earlier call
C13_Witness ==
    /\ gen.pc = "loop"
    /\ gen.idx = params.lookback_period
    /\ signals = <<>>
    /\ strat_positions # <<>>

\* C14 (as claimed): a driver given market data whose timestamps are not
\* strictly increasing stops before it produces anything: no signal is applied
\* to the ledger, no trade, equity point or metrics come out of the run, and the
\* run does not complete.
C14_MalformedInputStopsDriver ==
    (run.driver \in Drivers /\ ~StrictlyIncreasing(run.times)) =>
        /\ call = NoCall
        /\ trades = <<>> /\ equity_curve = <<>> /\ positions = {}
        /\ metrics = [computed |-> FALSE]
        /\ run.pc # "done"

(***************************************************************************)
(* Claims about the strategy's construction, checked under ConstructedSpec. *)
(***************************************************************************)
\* C15 (as claimed): a strategy constructed with min_spread > max_spread fails
\* at construction, so under such a configuration no generate_signals call is
\* ever in progress or returned, no row is processed and no required spread is
\* computed.
C15_MisconfiguredSpreadNeverRuns ==
    params.min_spread > params.max_spread =>
        /\ gen = Idle
        /\ rows_used = 0
        /\ strat_metrics = <<>>
        /\ signals = <<>>

(***************************************************************************)
(* Further claims about the ledger, checked under Spec.                    *)
(***************************************************************************)
\* C16: calculate_metrics on a ledger with no recorded trade returns the empty
\* result and changes nothing of the ledger (capital, positions, trades, equity
\* curve, stored metrics), whatever the equity curve and the open positions are.
C16_NoTradesEmptyMetrics ==
    [][(CalculateMetrics /\ trades = <<>>) =>
          /\ call' = Call("calculate_metrics", "empty")
          /\ UNCHANGED <<initial_capital, capital, trading_fee, slippage, positions,
                         trades, equity_curve, metrics>>]_vars

\* the empty result has been returned by a ledger that holds an open position
\* and an equity point
C16_Witness ==
    /\ call = Call("calculate_metrics", "empty")
    /\ trades = <<>>
    /\ positions # {}
    /\ equity_curve # <<>>

(***************************************************************************)
(* Claims about the statistics, checked under SeriesSpec (the functions on *)
(* their own) and StatisticsSpec (calculate_metrics).                      *)
(***************************************************************************)
\* a / b <= c / d and a / b = c / d on fractions with positive denominators
C17_Leq(a, b, c, d) == RatLeq(a, b, c, d)
C17_Eq(a, b, c, d) == RatLeq(a, b, c, d) /\ RatLeq(c, d, a, b)

\* the running maximum of the claim: the largest equity up to point i
C17_RunningMax(equity, i) ==
    CHOOSE m \in {equity[j] : j \in 1..i} : \A j \in 1..i : equity[j] <= m

\* "r is the maximum over time of (running_max - equity) / running_max, in [0, 1]"
C17_IsMaxDrawdown(equity, r) ==
    /\ r.kind = "ratio"
    /\ r.den > 0 /\ 0 <= r.num /\ r.num <= r.den
    /\ \A i \in 1..Len(equity) :
          C17_Leq(C17_RunningMax(equity, i) - equity[i], C17_RunningMax(equity, i),
                  r.num, r.den)
    /\ Len(equity) > 0 =>
          \E i \in 1..Len(equity) :
             C17_Eq(C17_RunningMax(equity, i) - equity[i], C17_RunningMax(equity, i),
                    r.num, r.den)

\* C17 (as claimed): for every finite equity curve with positive values,
\* calculate_max_drawdown returns the maximum over time of
\* (running_max - equity) / running_max, a number in [0, 1].
C17_MaxDrawdownWithinUnitInterval ==
    call.op = "calculate_max_drawdown" =>
        C17_IsMaxDrawdown(call.returned.argument, call.returned.result)

\* the part of C17 the code meets: the claim on equity curves that are not empty
\* (not a claim of its own)
MaxDrawdownOfNonEmptyCurve ==
    (call.op = "calculate_max_drawdown" /\ call.returned.argument # <<>>) =>
        C17_IsMaxDrawdown(call.returned.argument, call.returned.result)

\* C18 (as claimed): the Sharpe ratio the ledger reports is 0 whenever there are
\* fewer than 2 return observations: in calculate_metrics, for an equity curve
\* of 0, 1 or 2 points (which has no return, or one).
C18_SharpeZeroBelowTwoObservations ==
    (call = Call("calculate_metrics", "metrics") /\ Len(equity_curve) <= 2)
        => metrics.sharpe_ratio.kind = "zero"

\* the part of C18 the code meets: equity curves of 0 or 1 point (not a claim of
\* its own)
SharpeZeroBelowTwoPoints ==
    (call = Call("calculate_metrics", "metrics") /\ Len(equity_curve) < 2)
        => metrics.sharpe_ratio.kind = "zero"

\* the returns of a series are all positive, and there is at least one
C19_AllPositive(returns) ==
    /\ returns # <<>>
    /\ \A i \in 1..Len(returns) : ~returns[i].nan /\ returns[i].num > 0

C19_NoLosingTrade == \A i \in 1..Len(trades) : trades[i].pnl >= 0

C19_ProfitFactorSentinel ==
    (call.op = "calculate_profit_factor" /\ C19_NoLosingTrade)
        => call.returned.result.kind = "inf"

C20_Leq(r1, r2) == r1.num * r2.den <= r2.num * r1.den

\* clamp(volatility * leverage / buffer, 0, 1) as a fraction, for buffer > 0
C20_Clamped(volatility, leverage, buffer) ==
    IF volatility * leverage <= 0 THEN Stat("ratio", 0, 1)
    ELSE IF volatility * leverage >= buffer THEN Stat("ratio", 1, 1)
    ELSE Stat("ratio", volatility * leverage, buffer)

\* C20: liquidation_risk is 1.0 whenever margin_ratio - margin_buffer <= 0 and
\* otherwise clamp(volatility * leverage / (margin_ratio - margin_buffer), 0, 1);
\* the result is in [0, 1], non-decreasing in volatility and in leverage, and
\* non-increasing in the buffer margin_ratio - margin_buffer.
C20_LiquidationRisk ==
    call.op = "calculate_liquidation_risk" =>
        LET leverage == call.returned.self.max_leverage
            margin_buffer == call.returned.self.margin_buffer
            margin_ratio == call.returned.argument.margin_ratio
            volatility == call.returned.argument.volatility
            buffer == margin_ratio - margin_buffer
            risk == call.returned.result
        IN  /\ risk.kind = "ratio" /\ risk.den > 0
            /\ 0 <= risk.num /\ risk.num <= risk.den
            /\ buffer <= 0 => risk.num = risk.den
            /\ buffer > 0 =>
                  /\ C20_Leq(risk, C20_Clamped(volatility, leverage, buffer))
                  /\ C20_Leq(C20_Clamped(volatility, leverage, buffer), risk)
            /\ \A v \in Volatilities : v >= volatility =>
                  C20_Leq(risk, CalculateLiquidationRisk(leverage, margin_buffer,
                                                         margin_ratio, v))
            /\ \A l \in MaxLeverages : l >= leverage =>
                  C20_Leq(risk, CalculateLiquidationRisk(l, margin_buffer,
                                                         margin_ratio, volatility))
            /\ \A mr \in MarginRatios, mb \in MarginBuffers : mr - mb >= buffer =>
                  C20_Leq(CalculateLiquidationRisk(leverage, mb, mr, volatility), risk)

\* Scenario E: margin_ratio 0.1, volatility 0.5, leverage 5, margin_buffer 0.2
\* has returned 1.0
C20_Witness ==
    /\ call.op = "calculate_liquidation_risk"
    /\ call.returned.self = [max_leverage |-> 5, margin_buffer |-> 20]
    /\ call.returned.argument = [margin_ratio |-> 10, volatility |-> 50]
    /\ call.returned.result = Stat("ratio", 1, 1)

\* the limits a snapshot breaches, by the claim's names, and their priority order
C21_Priority == <<"liquidation risk", "spread", "volatility", "funding", "margin">>

C21_Breached(self, snapshot) ==
    {name \in {"liquidation risk", "spread", "volatility", "funding", "margin"} :
        \/ name = "liquidation risk" /\ snapshot.liquidation_risk > 50
        \/ name = "spread" /\ snapshot.spread > self.max_spread
        \/ name = "volatility" /\ snapshot.volatility > self.max_volatility
        \/ name = "funding" /\ snapshot.funding_rate < self.min_funding_rate
        \/ name = "margin" /\ snapshot.margin_ratio < self.margin_buffer}

C21_Reason(name) ==
    CASE name = "liquidation risk" -> "High liquidation risk"
      [] name = "spread" -> "Spread exceeded limit"
      [] name = "volatility" -> "Volatility too high"
      [] name = "funding" -> "Negative funding rate"
      [] name = "margin" -> "Low margin ratio"

\* C21: should_close reports 'do not close' exactly when no risk limit is
\* breached, and otherwise the reason of the breached limit that comes first in
\* the order liquidation risk > spread > volatility > funding > margin, for
\* every combination of breached limits.
C21_ShouldCloseByPriority ==
    call.op = "should_close_position" =>
        LET breached == C21_Breached(call.returned.self, call.returned.argument)
            result == call.returned.result
        IN  /\ result[1] = (breached # {})
            /\ breached = {} => result[2] = ""
            /\ breached # {} =>
                  \E k \in 1..Len(C21_Priority) :
                     /\ C21_Priority[k] \in breached
                     /\ \A j \in 1..(k - 1) : C21_Priority[j] \notin breached
                     /\ result[2] = C21_Reason(C21_Priority[k])

\* the spread, funding and margin limits are breached together (liquidation risk
\* and volatility exactly at their limits are not) and the spread is reported
C21_Witness ==
    /\ call.op = "should_close_position"
    /\ call.returned.argument = [spread |-> 3, volatility |-> 5, funding_rate |-> 0 - 2,
                                 margin_ratio |-> 10, liquidation_risk |-> 50]
    /\ call.returned.result = <<TRUE, "Spread exceeded limit">>

\* "v is what the claim says the volatility over the price window w is"
C22_IsVolatilityOf(w, v) ==
    IF Len(w) < 2 THEN v.kind = "zero"
    ELSE v.kind = "stdev" /\ v.over = w

\* C22 (as claimed): volatility over a price window is 0 whenever the window has
\* fewer than 2 samples, and for every window of 2 or more samples the standard
\* deviation of the log returns of the window scaled by the square root of the
\* annualization periods; for the RiskManager's function on the prices it is
\* handed, and for each row of the strategy's on the prices up to that row.
C22_VolatilityOfWindow ==
    /\ call.op = "RiskManager.calculate_volatility" =>
          C22_IsVolatilityOf(call.returned.argument.prices, call.returned.result)
    /\ call.op = "VolatilityAdaptiveStrategy.calculate_volatility" =>
          \A i \in 1..Len(call.returned.result) :
             LET closes == call.returned.argument.prices
                 window == call.returned.argument.window
                 first == IF i > window THEN i - window ELSE 1
             IN  C22_IsVolatilityOf(SubSeq(closes, first, i), call.returned.result[i])

(***************************************************************************)
(* Further claims about the strategy, checked under StrategySpec.          *)
(***************************************************************************)
\* C23 (as claimed): after generate_signals has processed its rows, one metrics
\* record has been appended per row, warm-up rows included: when a call has
\* returned, the instance holds as many records as it was handed rows.
C23_OneMetricsRecordPerBar ==
    gen.pc = "returned" => Len(strat_metrics) = rows_used

\* the part of C23 the code meets: every row past the warm-up appends one record
\* carrying the row's values and the position count after the row (not a claim
\* of its own)
MetricsRecordPerRowPastWarmUp ==
    [][\A market \in Markets, price \in BarPrices, arrival \in FundingArrivals :
         GenBar(market, price, arrival) =>
            /\ Len(strat_metrics') = Len(strat_metrics) + 1
            /\ SubSeq(strat_metrics', 1, Len(strat_metrics)) = strat_metrics
            /\ Last(strat_metrics') =
                  [timestamp |-> BarTime(gen.idx), price |-> price,
                   volatility |-> market[1], actual_spread |-> market[2],
                   required_spread |-> RequiredOf(market[1]),
                   funding_rate |-> RowFundingRate(arrival),
                   position_count |-> Len(strat_positions')]]_vars

\* the funding rate of the claim: the latest record at or before the row, 0 when
\* there is no funding series or no record yet
C24_Rate(arrival) ==
    IF ~gen.has_funding THEN 0
    ELSE IF arrival # NaN THEN arrival
    ELSE IF gen.asof # NaN THEN gen.asof
    ELSE 0

\* C24 (as claimed): a row is evaluated with the rate of the latest funding
\* record at or before it, and with 0 when there is none: the rate recorded for
\* the row is that rate, and a row that finds the strategy flat in a call without
\* a signal so far, with actual > 1.3 * required, v < 0.8 * vol_threshold and that
\* rate below 0.5 * funding_threshold, opens a long.
C24_FundingRateOrZero ==
    [][\A market \in Markets, price \in BarPrices, arrival \in FundingArrivals :
         GenBar(market, price, arrival) =>
            /\ Last(strat_metrics').funding_rate = C24_Rate(arrival)
            /\ (/\ strat_positions = <<>> /\ signals = <<>>
                /\ 10 * market[2] > 13 * RequiredOf(market[1])
                /\ 10 * market[1] < 8 * params.vol_threshold
                /\ 10 * C24_Rate(arrival) < 5 * params.funding_threshold)
               => /\ Len(signals') = 1
                  /\ signals'[1].action = "open" /\ signals'[1].side = "long"]_vars

\* the part of C24 the code meets: rows of a call without a funding series, and
\* rows at or after a funding record (not a claim of its own)
FundingRateWhereKnown ==
    [][\A market \in Markets, price \in BarPrices, arrival \in FundingArrivals :
         (GenBar(market, price, arrival) /\ (~gen.has_funding \/ arrival # NaN
                                             \/ gen.asof # NaN))
            => Last(strat_metrics').funding_rate = C24_Rate(arrival)]_vars

\* C27: one generate_signals call emits at most one signal in all: after the
\* call's first open or close signal no later row of the call adds a signal.
C27_AtMostOneSignalPerCall ==
    /\ Len(signals) <= 1
    /\ signals # <<>> => active_symbols = {signals[1].symbol}

\* a call has closed a position carried over from an earlier call and has
\* processed at least one more row, the strategy being flat
C27_Witness ==
    /\ gen.pc = "loop"
    /\ Len(signals) = 1 /\ signals[1].action = "close"
    /\ strat_positions = <<>>
    /\ gen.idx > signals[1].timestamp

\* C28: the strategy holds at most one open position in all, at every row, also
\* across repeated generate_signals calls on the same instance.
C28_AtMostOnePositionHeld == Len(strat_positions) <= 1

\* a later call is past its warm-up with the position of an earlier call still
\* held and no signal of its own
C28_Witness ==
    /\ gen.pc = "loop"
    /\ gen.idx > params.lookback_period
    /\ signals = <<>>
    /\ Len(strat_positions) = 1

\* C30 (as claimed): on a row where the strategy is flat and both entry
\* conditions hold (actual > 1.3 * required, v < 0.8 * vol_threshold and
\* -0.5 * funding_threshold < f < 0.5 * funding_threshold), exactly one open
\* signal is emitted and its side is long; a short is opened only on rows where
\* f >= 0.5 * funding_threshold.
C30_LongWinsWhenBothHold ==
    [][\A market \in Markets, price \in BarPrices, arrival \in FundingArrivals :
         GenBar(market, price, arrival) =>
            LET f == RowFundingRate(arrival)
            IN  /\ (/\ strat_positions = <<>>
                    /\ 10 * market[2] > 13 * RequiredOf(market[1])
                    /\ 10 * market[1] < 8 * params.vol_threshold
                    /\ f # NaN
                    /\ 10 * f < 5 * params.funding_threshold
                    /\ 10 * f > 0 - 5 * params.funding_threshold)
                   => /\ Len(NewSignals) = 1
                      /\ NewSignals[1].action = "open"
                      /\ NewSignals[1].side = "long"
                /\ \A i \in 1..Len(NewSignals) :
                      (NewSignals[i].action = "open" /\ NewSignals[i].side = "short")
                         => f # NaN /\ 10 * f >= 5 * params.funding_threshold]_vars

\* the part of C30 the code meets: the claim on rows of a call that has had no
\* signal so far (not a claim of its own)
LongWinsBeforeFirstSignal ==
    [][\A market \in Markets, price \in BarPrices, arrival \in FundingArrivals :
         GenBar(market, price, arrival) =>
            LET f == RowFundingRate(arrival)
            IN  /\ (/\ strat_positions = <<>> /\ signals = <<>>
                    /\ 10 * market[2] > 13 * RequiredOf(market[1])
                    /\ 10 * market[1] < 8 * params.vol_threshold
                    /\ f # NaN
                    /\ 10 * f < 5 * params.funding_threshold
                    /\ 10 * f > 0 - 5 * params.funding_threshold)
                   => /\ Len(NewSignals) = 1
                      /\ NewSignals[1].action = "open"
                      /\ NewSignals[1].side = "long"
                /\ \A i \in 1..Len(NewSignals) :
                      (NewSignals[i].action = "open" /\ NewSignals[i].side = "short")
                         => f # NaN /\ 10 * f >= 5 * params.funding_threshold]_vars

\* C25: every open signal carries leverage = min(max_leverage, 2 / v) for a row
\* volatility v > 0 and leverage = max_leverage for v = 0, which raises no fault:
\* the leverage is positive and never above max_leverage.
C25_OpenLeverageCapped ==
    [][\A market \in SizingMarkets, price \in BarPrices, arrival \in FundingArrivals :
         GenBar(market, price, arrival) =>
            \A i \in 1..Len(NewSignals) :
               NewSignals[i].action = "open" =>
                  LET v == market[1]
                      leverage == NewSignals[i].leverage
                  IN  /\ leverage > 0
                      /\ leverage <= params.max_leverage
                      /\ leverage * v <= 2 * VolDen
                      /\ leverage = params.max_leverage \/ leverage * v = 2 * VolDen]_vars

\* a position was opened on a row of zero volatility
C25_Witness ==
    /\ signals # <<>> /\ signals[1].action = "open"
    /\ signals[1].leverage = params.max_leverage
    /\ \E i \in 1..Len(strat_metrics) :
          /\ strat_metrics[i].timestamp = signals[1].timestamp
          /\ strat_metrics[i].volatility = 0
          /\ strat_metrics[i].position_count = 1

\* a position was opened with 2 / v below max_leverage (reachability only)
OpenedBelowLeverageCap ==
    /\ signals # <<>> /\ signals[1].action = "open"
    /\ signals[1].leverage < params.max_leverage

(***************************************************************************)
(* The metrics as a whole, checked under StatisticsSpec.                   *)
(***************************************************************************)
\* a metric that is a defined number or +inf: not NaN, not -inf
C26_Defined(stat) == stat.kind \in {"zero", "ratio", "quotient", "inf"}

\* C26 (as claimed): on every ledger with at least one recorded trade,
\* calculate_metrics returns metrics each of which is a defined number or +inf,
\* never NaN and never -inf, whatever the equity curve: empty, of one point,
\* constant, or with exactly one negative return.
C26_MetricsDefined ==
    call = Call("calculate_metrics", "metrics") =>
        /\ metrics.num_trades > 0
        /\ C26_Defined(metrics.max_drawdown)
        /\ C26_Defined(metrics.sharpe_ratio)
        /\ C26_Defined(metrics.sortino_ratio)
        /\ C26_Defined(metrics.profit_factor)

\* the part of C26 the code meets: the metrics of a single-point curve, and the
\* profit factor always (not a claim of its own)
MetricsDefinedOnSinglePoint ==
    call = Call("calculate_metrics", "metrics") =>
        /\ C26_Defined(metrics.profit_factor)
        /\ Len(equity_curve) = 1 =>
              /\ C26_Defined(metrics.max_drawdown)
              /\ C26_Defined(metrics.sharpe_ratio)
              /\ C26_Defined(metrics.sortino_ratio)

\* the Sharpe ratio of a constant curve of three points is -inf (reachability)
ConstantCurveSharpe ==
    /\ call = Call("calculate_metrics", "metrics")
    /\ Len(equity_curve) = 3
    /\ metrics.sharpe_ratio.kind = "-inf"

(***************************************************************************)
(* The strategy's signals applied to the ledger, checked under DriverSpec. *)
(***************************************************************************)
\* the volatility of the row on which the fresh strategy opened its position:
\* the first row recorded with a position held
C29_OpeningVolatility ==
    LET k == CHOOSE i \in 1..Len(strat_metrics) :
                 /\ strat_metrics[i].position_count = 1
                 /\ \A j \in 1..(i - 1) : strat_metrics[j].position_count = 0
    IN  strat_metrics[k].volatility

\* C29: when run_backtest of backtest_volatility_strategy.py applies the signals
\* of a fresh strategy to a fresh ledger with the same initial capital, no open
\* is rejected and no close is a no-op; the margin of an open, price * amount /
\* leverage, equals 0.5 * max_position_pct * vol_scalar * capital, whatever the
\* price and the leverage; and after each applied signal the symbols open in the
\* ledger are those the strategy holds after emitting that signal.
C29_LedgerFollowsStrategy ==
    [][VolatilitySignal =>
          LET signal == Head(run.pending)
          IN  /\ signal.action = "open" =>
                    /\ call' = Call("open_position", "true")
                    /\ signal.price * signal.amount * (100 * 10 * params.vol_threshold * 2)
                          = (initial_capital \div MoneyDen) * params.max_position_pct
                               * VolScalar(C29_OpeningVolatility) * signal.leverage
              /\ signal.action = "close" => Len(trades') = Len(trades) + 1
              /\ OpenSymbols' = StratKeys(strat_positions)]_vars

\* the driver has applied the open signal of its strategy to the ledger
C29_Witness ==
    /\ run.driver = "volatility"
    /\ run.pc = "signals" /\ run.pending = <<>>
    /\ call = Call("open_position", "true")
    /\ positions # {}
    /\ \E p \in positions : p.amount = 18 /\ p.leverage = DefaultMaxLeverage
    /\ OpenSymbols = StratKeys(strat_positions)
====
